---- MODULE Spec2Model ----
(***************************************************************************)
(* MissionSet (src/app/main.py): role-gated CRUD over a relational store   *)
(* with a best-effort mirror of every item into a search index.            *)
(*                                                                         *)
(* One action per HTTP handler.  An action is the whole handler: identity  *)
(* resolution, authorization, validation, the store transaction and the    *)
(* index call that follows it.  `req` and `resp` hold the request that was *)
(* handled last and its outcome; `trace` holds, in program order, the      *)
(* store and index operations that request performed.                      *)
(*                                                                         *)
(* Text that the code takes apart (labels, the comma-joined tags column,   *)
(* module names) is a sequence of one-character strings; text that the     *)
(* code only stores and copies (titles, names) is an opaque string.        *)
(*                                                                         *)
(* Five specifications share the handlers.  Spec starts from a new         *)
(* database and runs sign-up, login, the item handlers and the pages that  *)
(* read.  AdminSpec starts there too and adds the admin's user pages and   *)
(* the profile page.  ReadSpec and EditSpec start over a database that     *)
(* earlier requests have filled: ReadSpec draws the item table and runs    *)
(* the pages that read it, EditSpec runs the item handlers over two rows.  *)
(* In those four a request runs to its response before the next begins.    *)
(* StepSpec runs requests side by side: sign-up, edit and delete are split *)
(* where another thread's statements can come between, and `inflight`      *)
(* holds the requests that have begun and not answered yet.                *)
(***************************************************************************)
EXTENDS Integers, Sequences, FiniteSets, TLC

\* ------------------------------------------------------------------ bounds
\* AUTOINCREMENT never reuses an id: these cap the number of rows ever made.
MaxItems == 1
MaxComments == 1

\* ------------------------------------------------------------- text values
Range(s) == {s[i] : i \in 1..Len(s)}

ALLOWED_LABELS ==
    << <<"R","e","c","o","n">>,
       <<"M","i","s","s","i","o","n">>,
       <<"M","e","d","i","c","a","l">>,
       <<"E","m","e","r","g","e","n","c","y">>,
       <<"N","o","t","i","c","e">> >>

Lowers == <<"a","b","c","d","e","f","g","h","i","j","k","l","m",
            "n","o","p","q","r","s","t","u","v","w","x","y","z">>
Uppers == <<"A","B","C","D","E","F","G","H","I","J","K","L","M",
            "N","O","P","Q","R","S","T","U","V","W","X","Y","Z">>

\* str.upper / str.lower on one character
UpperChar(c) ==
    IF \E i \in 1..Len(Lowers) : Lowers[i] = c
    THEN Uppers[CHOOSE i \in 1..Len(Lowers) : Lowers[i] = c] ELSE c
LowerChar(c) ==
    IF \E i \in 1..Len(Uppers) : Uppers[i] = c
    THEN Lowers[CHOOSE i \in 1..Len(Uppers) : Uppers[i] = c] ELSE c

\* str.capitalize(): first character upper-cased, the rest lower-cased
Capitalize(s) ==
    [i \in 1..Len(s) |-> IF i = 1 THEN UpperChar(s[i]) ELSE LowerChar(s[i])]

\* ",".join(list of strings)
RECURSIVE JoinComma(_)
JoinComma(l) ==
    IF l = <<>> THEN <<>>
    ELSE IF Len(l) = 1 THEN l[1]
    ELSE l[1] \o <<",">> \o JoinComma(Tail(l))

\* s.split(","): always at least one piece, pieces may be empty
RECURSIVE SplitFrom(_, _)
SplitFrom(s, cur) ==
    IF s = <<>> THEN <<cur>>
    ELSE IF Head(s) = "," THEN <<cur>> \o SplitFrom(Tail(s), <<>>)
    ELSE SplitFrom(Tail(s), Append(cur, Head(s)))
SplitComma(s) == SplitFrom(s, <<>>)

\* str.strip(): leading and trailing blanks removed
RECURSIVE StripLeft(_)
StripLeft(s) ==
    IF s # <<>> /\ Head(s) = " " THEN StripLeft(Tail(s)) ELSE s
RECURSIVE StripRight(_)
StripRight(s) ==
    IF s # <<>> /\ s[Len(s)] = " " THEN StripRight(SubSeq(s, 1, Len(s) - 1)) ELSE s
Strip(s) == StripRight(StripLeft(s))

\* [t.strip() for t in tags.split(",") if t.strip()]
TagList(tags) ==
    LET parts == SplitComma(tags)
        kept  == SelectSeq(parts, LAMBDA t : Strip(t) # <<>>)
    IN  [i \in 1..Len(kept) |-> Strip(kept[i])]

\* str(int) for a non-negative integer: its decimal digits
Digits == <<"0","1","2","3","4","5","6","7","8","9">>
RECURSIVE Str(_)
Str(n) == IF n < 10 THEN <<Digits[n + 1]>> ELSE Str(n \div 10) \o <<Digits[(n % 10) + 1]>>

\* ------------------------------------------------------------- timestamps
\* The text of a datetime form field: an ISO-8601 text for instant v, or
\* something datetime.fromisoformat rejects.
IsoText(v) == [text |-> "iso", v |-> v]
JunkText == [text |-> "junk", v |-> 0]

\* parse_dt: TRUE when fromisoformat raises (the handler answers 400)
ParseFails(s) == s.text # "iso"
\* parse_dt: the parsed datetime of a well-formed text
parse_dt(s) == s.v

\* --------------------------------------------------------- request inputs
\* the accounts people sign up with: username, password, display name
Account(username, password, name) ==
    [username |-> username, password |-> password, name |-> name]
Accounts == {Account("u1", "pw", "Ann"), Account("u2", "pw", "Bob")}
Usernames == {a.username : a \in Accounts}
PasswordTries == {a.password : a \in Accounts} \cup {"wrong"}
Names == {a.name : a \in Accounts}
Contents == {"hello"}

\* an unknown label
Bogus == <<"B","o","g","u","s">>

\* the item forms a client submits: title, start, end, description, labels
Form(title, start_time, end_time, description, labels) ==
    [title |-> title, start_time |-> start_time, end_time |-> end_time,
     description |-> description, labels |-> labels]
ItemForms ==
    { Form("t1", IsoText(0), IsoText(1), "", <<ALLOWED_LABELS[1]>>),
      Form("t2", IsoText(1), IsoText(1), "d1", <<ALLOWED_LABELS[5], Bogus>>),
      Form("t1", IsoText(1), IsoText(0), "", <<ALLOWED_LABELS[1]>>),
      Form("t1", JunkText, IsoText(0), "", <<>>),
      Form("t2", IsoText(0), JunkText, "d1", <<Bogus>>) }

\* the {label} path segment of /module/{label}
ModuleInputs == { <<"n","O","T","I","C","E">>, Bogus }

\* datetime.utcnow() as the handlers see it
Clock == {IsoText(1)}

\* the search service answers, or the call raises
OsStates == {"up", "down"}

\* ------------------------------------------------------------------ state
VARIABLES
    users,          \* table users: row id -> row (ids are 1..Len(users))
    profiles,       \* table profiles: user_id -> name
    items,          \* table items: id -> row
    comments,       \* table comments: set of rows
    nextItemId,     \* AUTOINCREMENT sequence of items
    nextCommentId,  \* AUTOINCREMENT sequence of comments
    index,          \* the search index: document id -> document
    cookies,        \* the user ids for which a signed ms_session cookie is out
    req,            \* the request handled last
    resp,           \* its response
    trace,          \* the store and index operations it performed, in order
    inflight        \* the requests a worker thread has begun and not finished:
                    \* what each has read or committed so far

store == <<users, profiles, items, comments, nextItemId, nextCommentId>>
vars == <<users, profiles, items, comments, nextItemId, nextCommentId,
          index, cookies, req, resp, trace, inflight>>

NULL == 0

\* ------------------------------------------------------------- row access
UserIds == 1..Len(users)

\* bcrypt.hash / bcrypt.verify
bcrypt_hash(password) == <<"bcrypt", password>>
bcrypt_verify(password, hash) == hash = <<"bcrypt", password>>

\* SELECT * FROM users WHERE username = :u [AND is_active = 1]
UserByName(username) == {i \in UserIds : users[i].username = username}
\* mutant: the login query has no `AND is_active=1`
ActiveUserByName_Any(username) == UserByName(username)
ActiveUserByName(username) == {i \in UserByName(username) : users[i].is_active = 1}

\* the session a request carries: no cookie (user_id 0), or one of the
\* cookies login has issued (the cookie is signed and lives with the client)
Sessions == {0} \cup cookies

\* a user id no row of the table has: the id in a cookie that was signed
\* with SECRET_KEY for a database that was replaced since
UnknownUserId == 9

\* mutant: the query of current_user has no `AND is_active=1`
current_user_AnyRow(c) == IF c \in UserIds THEN c ELSE NULL

\* current_user: the active user the session cookie `c` names, or NULL
current_user(c) ==
    LET uid == c IN
    IF uid = 0 THEN NULL
    ELSE IF uid \in UserIds /\ users[uid].is_active = 1 THEN uid
    ELSE NULL

\* u.get("is_admin") of a resolved user
is_admin(u) == users[u].is_admin # 0

\* mutant: the admin-only handlers ask for a signed-in user only
NotAdmin_SignedIn(u) == u = NULL

\* the guard `not u or not u.get("is_admin")` of the admin-only handlers
NotAdmin(u) == u = NULL \/ ~is_admin(u)

\* get_profile(uid)["name"]: the stored name, "" when there is no row
get_profile(uid) == IF uid \in DOMAIN profiles THEN profiles[uid] ELSE ""

\* prof.get("name") or u["username"]
AuthorOf(u) == IF get_profile(u) # "" THEN get_profile(u) ELSE users[u].username

\* INSERT INTO profiles ... ON CONFLICT(user_id) DO UPDATE SET name = :n
UpsertProfile(p, uid, name) ==
    [i \in DOMAIN p \cup {uid} |-> IF i = uid THEN name ELSE p[i]]

\* ------------------------------------------------------- request, response
NoTime == JunkText
Request(op, c) ==
    [op |-> op, session |-> c, id |-> 0, start |-> NoTime, end |-> NoTime,
     labels |-> <<>>]
ItemRequest(op, c, id) == [Request(op, c) EXCEPT !.id = id]
FormRequest(op, c, id, start_time, end_time, labels) ==
    [op |-> op, session |-> c, id |-> id, start |-> start_time, end |-> end_time,
     labels |-> labels]

\* RedirectResponse(url, status_code=303)
Redirect(url, id) == [status |-> 303, to |-> url, id |-> id, error |-> ""]
\* TemplateResponse(..., {"error": e}, status_code) and HTTPException(status, e)
Failure(status, e) == [status |-> status, to |-> "", id |-> 0, error |-> e]
\* TemplateResponse(...) with status 200
Page(id) == [status |-> 200, to |-> "", id |-> id, error |-> ""]

LoginRedirect == Redirect("/auth/login", 0)

\* ------------------------------------------------------------------- Init
\* init_db creates the tables only when they are missing, so the rows of an
\* earlier deployment survive: the store starts empty, or with one item of
\* that deployment, which has no owner (author_user_id is nullable) and is
\* mirrored in the index.
LegacyItem ==
    [title |-> "t1", description |-> "", tags |-> <<>>, created_at |-> IsoText(0),
     author |-> "", author_user_id |-> NULL,
     start_time |-> IsoText(0), end_time |-> IsoText(1)]

\* the body index_item_in_os sends for a row
Document(item) ==
    [title |-> item.title,
     description |-> item.description,
     tags |-> TagList(item.tags),
     author |-> item.author,
     start_time |-> item.start_time,
     end_time |-> item.end_time,
     created_at |-> item.created_at]

Empty == [x \in {} |-> 0]

Init ==
    /\ users = <<>>
    /\ profiles = Empty
    /\ \/ items = Empty /\ nextItemId = 1 /\ index = Empty
       \/ /\ items = [i \in {1} |-> LegacyItem]
          /\ nextItemId = 2
          /\ index = [k \in {Str(1)} |-> Document(LegacyItem)]
    /\ comments = {}
    /\ nextCommentId = 1
    /\ cookies = {}
    /\ req = Request("start", 0)
    /\ resp = Page(0)
    /\ trace = <<>>
    /\ inflight = {}

\* ------------------------------------------------------------------- auth
\* the login form: username and password
LoginRequest(c, username, password) ==
    [op |-> "login_submit", session |-> c, id |-> 0, start |-> NoTime,
     end |-> NoTime, labels |-> <<>>, username |-> username, password |-> password]

\* POST /auth/login
login_submit(c, username, password) ==
    LET found == ActiveUserByName(username)
        uid   == CHOOSE i \in found : TRUE
        ok    == found # {} /\ bcrypt_verify(password, users[uid].password_hash)
    IN
    /\ req' = LoginRequest(c, username, password)
    /\ trace' = <<>>
    /\ IF ~ok
       THEN /\ resp' = Failure(401, "Invalid credentials")
            /\ UNCHANGED cookies
       ELSE /\ cookies' = cookies \cup {uid}
            /\ resp' = Redirect("/", 0)
    /\ UNCHANGED <<store, index, inflight>>

\* POST /auth/logout: request.session.clear() empties the cookie of the
\* response; the server keeps no session state
logout(c) ==
    /\ req' = Request("logout", c)
    /\ trace' = <<>>
    /\ resp' = LoginRedirect
    /\ UNCHANGED <<store, index, cookies, inflight>>

\* GET /auth/register
register_form(c) ==
    LET count == Len(users)
        u     == current_user(c)
    IN
    /\ req' = Request("register_form", c)
    /\ trace' = <<>>
    /\ resp' = IF count > 0 /\ NotAdmin(u) THEN LoginRedirect ELSE Page(0)
    /\ UNCHANGED <<store, index, cookies, inflight>>

\* POST /auth/register
register_submit(c, username, password, name) ==
    LET count == Len(users)
        admin == IF count = 0 THEN 1 ELSE 0
        uid   == Len(users) + 1
    IN
    /\ req' = Request("register_submit", c)
    /\ IF UserByName(username) # {}
       THEN \* the INSERT violates UNIQUE(username)
            /\ resp' = Failure(400, "Username already exists")
            /\ trace' = <<"tx:begin", "tx:commit">>
            /\ UNCHANGED <<users, profiles>>
       ELSE /\ users' = Append(users,
                   [username |-> username, password_hash |-> bcrypt_hash(password),
                    is_admin |-> admin, is_active |-> 1])
            /\ profiles' = UpsertProfile(profiles, uid, name)
            /\ resp' = LoginRedirect
            /\ trace' = <<"tx:begin", "sql:insert_user", "sql:upsert_profile", "tx:commit">>
    /\ UNCHANGED <<items, comments, nextItemId, nextCommentId, index, cookies, inflight>>

\* ------------------------------------------------------------ admin users
\* POST /admin/users/new
admin_users_new(c, username, password, name, admin_flag) ==
    LET u   == current_user(c)
        uid == Len(users) + 1
    IN
    /\ req' = Request("admin_users_new", c)
    /\ IF NotAdmin(u)
       THEN /\ resp' = LoginRedirect
            /\ trace' = <<>>
            /\ UNCHANGED <<users, profiles>>
       ELSE IF UserByName(username) # {}
       THEN /\ resp' = Failure(400, "Username exists")
            /\ trace' = <<"tx:begin", "tx:commit">>
            /\ UNCHANGED <<users, profiles>>
       ELSE /\ users' = Append(users,
                   [username |-> username, password_hash |-> bcrypt_hash(password),
                    is_admin |-> IF admin_flag # 0 THEN 1 ELSE 0, is_active |-> 1])
            /\ profiles' = UpsertProfile(profiles, uid, name)
            /\ resp' = Redirect("/admin/users", 0)
            /\ trace' = <<"tx:begin", "sql:insert_user", "sql:insert_profile", "tx:commit">>
    /\ UNCHANGED <<items, comments, nextItemId, nextCommentId, index, cookies, inflight>>

\* POST /admin/users/{uid}/toggle_admin
admin_toggle_admin(c, uid) ==
    LET u == current_user(c) IN
    /\ req' = [Request("admin_toggle_admin", c) EXCEPT !.id = uid]
    /\ IF NotAdmin(u)
       THEN /\ resp' = LoginRedirect
            /\ trace' = <<>>
            /\ UNCHANGED users
       ELSE /\ users' = [i \in UserIds |->
                   IF i = uid THEN [users[i] EXCEPT !.is_admin = 1 - @] ELSE users[i]]
            /\ resp' = Redirect("/admin/users", 0)
            /\ trace' = <<"tx:begin", "sql:update_user", "tx:commit">>
    /\ UNCHANGED <<profiles, items, comments, nextItemId, nextCommentId, index, cookies, inflight>>

\* POST /admin/users/{uid}/toggle_active
admin_toggle_active(c, uid) ==
    LET u == current_user(c) IN
    /\ req' = [Request("admin_toggle_active", c) EXCEPT !.id = uid]
    /\ IF NotAdmin(u)
       THEN /\ resp' = LoginRedirect
            /\ trace' = <<>>
            /\ UNCHANGED users
       ELSE /\ users' = [i \in UserIds |->
                   IF i = uid THEN [users[i] EXCEPT !.is_active = 1 - @] ELSE users[i]]
            /\ resp' = Redirect("/admin/users", 0)
            /\ trace' = <<"tx:begin", "sql:update_user", "tx:commit">>
    /\ UNCHANGED <<profiles, items, comments, nextItemId, nextCommentId, index, cookies, inflight>>

\* POST /profile (of the profile columns the model keeps the name)
profile_submit(c, name) ==
    LET u == current_user(c) IN
    /\ req' = Request("profile_submit", c)
    /\ IF u = NULL
       THEN /\ resp' = LoginRedirect
            /\ trace' = <<>>
            /\ UNCHANGED profiles
       ELSE /\ profiles' = UpsertProfile(profiles, u, name)
            /\ resp' = Redirect("/profile", 0)
            /\ trace' = <<"tx:begin", "sql:upsert_profile", "tx:commit">>
    /\ UNCHANGED <<users, items, comments, nextItemId, nextCommentId, index, cookies, inflight>>

\* ------------------------------------------------------------ index client
\* SELECT * FROM items WHERE id = :id .first(): <<row>>, or <<>> for None
RowOf(tbl, id) == IF id \in DOMAIN tbl THEN <<tbl[id]>> ELSE <<>>

\* os_client.index(index, id=str(item_id), body, refresh=True)
OsIndex(idx, key, body) ==
    [k \in DOMAIN idx \cup {key} |-> IF k = key THEN body ELSE idx[k]]

\* mutant: the delete call of the index client is dropped
OsDelete_Keep(idx, key) == idx

\* os_client.delete(index, id, ignore=[404])
OsDelete(idx, key) == [k \in DOMAIN idx \ {key} |-> idx[k]]

\* mutant: the call has op_type="create", a document that exists is kept
index_item_in_os_CreateOnly(idx, item_id, row, os) ==
    IF row = <<>> \/ os = "down" \/ Str(item_id) \in DOMAIN idx THEN idx
    ELSE OsIndex(idx, Str(item_id), Document(row[1]))

\* index_item_in_os(item_id, item): the index afterwards.  Building the body
\* of a None row raises inside the try block, before the client is called;
\* a call to an unreachable service raises too; both are caught and logged.
index_item_in_os(idx, item_id, row, os) ==
    IF row = <<>> THEN idx
    ELSE IF os = "down" THEN idx
    ELSE OsIndex(idx, Str(item_id), Document(row[1]))

\* index_item_in_os: the call it issues to the search service, and how the
\* call ended
IndexCalls(row, os) ==
    IF row = <<>> THEN <<>>
    ELSE IF os = "down" THEN <<"os:index:failed">> ELSE <<"os:index:ok">>

\* the guarded os_client.delete of delete_item
DeleteCalls(os) == IF os = "down" THEN <<"os:delete:failed">> ELSE <<"os:delete:ok">>

\* a `with engine.begin()` block that runs the statements and commits
Transaction(statements) == <<"tx:begin">> \o statements \o <<"tx:commit">>

\* mutant: the index is written before the store transaction
IndexThenStore(tx, calls) == calls \o tx

\* the order of the write handlers: the store transaction, then the index
StoreThenIndex(tx, calls) == tx \o calls

\* mutant: a failed index call is not swallowed and fails the request
AfterIndexCall_Raises(os, response) ==
    IF os = "down" THEN Failure(500, "Internal Server Error") ELSE response

\* the response of a write handler once index_item_in_os / the guarded
\* os_client.delete has returned: the except clause swallowed any failure
AfterIndexCall(os, response) == response

\* ------------------------------------------------------------------ items
\* mutant: the labels are stored as submitted
FilterLabels_Keep(labels) == labels

\* labels = [l for l in labels if l in ALLOWED_LABELS]
FilterLabels(labels) == SelectSeq(labels, LAMBDA l : l \in Range(ALLOWED_LABELS))

\* mutants: the range check is missing; the range check is the wrong way round
EndBeforeStart_Never(start_time, end_time) == FALSE
EndBeforeStart_Swapped(start_time, end_time) == parse_dt(start_time) < parse_dt(end_time)

\* `if edt < sdt` on the parsed datetimes
EndBeforeStart(start_time, end_time) == parse_dt(end_time) < parse_dt(start_time)

\* the item row the INSERT of create_item / module_create writes
NewItem(u, title, description, tags, now, start_time, end_time) ==
    [title |-> title, description |-> description, tags |-> tags,
     created_at |-> now, author |-> AuthorOf(u), author_user_id |-> u,
     start_time |-> start_time, end_time |-> end_time]

\* INSERT ... RETURNING id (where the engine rejects RETURNING, the plain
\* INSERT and SELECT last_insert_rowid(): one row inserted either way)
InsertStatements == <<"sql:insert_item">>

InsertRow(tbl, id, row) == [i \in DOMAIN tbl \cup {id} |-> IF i = id THEN row ELSE tbl[i]]

\* the part create_item and module_create share, from parse_dt on
ValidateAndInsert(u, title, start_time, end_time, description, tags, now, os) ==
    LET item_id == nextItemId
        row     == NewItem(u, title, description, tags, now, start_time, end_time)
    IN
    IF ParseFails(start_time)
    THEN /\ resp' = Failure(400, "Invalid datetime for start_time")
         /\ trace' = <<>>
         /\ UNCHANGED <<items, nextItemId, index>>
    ELSE IF ParseFails(end_time)
    THEN /\ resp' = Failure(400, "Invalid datetime for end_time")
         /\ trace' = <<>>
         /\ UNCHANGED <<items, nextItemId, index>>
    ELSE IF EndBeforeStart(start_time, end_time)
    THEN /\ resp' = Failure(400, "End time must be after start time")
         /\ trace' = <<>>
         /\ UNCHANGED <<items, nextItemId, index>>
    ELSE /\ items' = InsertRow(items, item_id, row)
         /\ nextItemId' = nextItemId + 1
         /\ index' = index_item_in_os(index, item_id, RowOf(items', item_id), os)
         /\ trace' = StoreThenIndex(Transaction(InsertStatements),
                                    IndexCalls(RowOf(items', item_id), os))
         /\ resp' = AfterIndexCall(os, Redirect("/data/", item_id))

\* POST /data/new
create_item(c, title, start_time, end_time, description, labels, now, os) ==
    LET u == current_user(c) IN
    /\ nextItemId <= MaxItems
    /\ req' = FormRequest("create_item", c, 0, start_time, end_time, labels)
    /\ IF u = NULL
       THEN /\ resp' = LoginRedirect
            /\ trace' = <<>>
            /\ UNCHANGED <<items, nextItemId, index>>
       ELSE ValidateAndInsert(u, title, start_time, end_time, description,
                              JoinComma(FilterLabels(labels)), now, os)
    /\ UNCHANGED <<users, profiles, comments, nextCommentId, cookies, inflight>>

\* GET /data/{item_id}
view_item(c, item_id) ==
    /\ req' = [Request("view_item", c) EXCEPT !.id = item_id]
    /\ trace' = <<>>
    /\ resp' = IF RowOf(items, item_id) = <<>> THEN Failure(404, "Not found")
               ELSE Page(item_id)
    /\ UNCHANGED <<store, index, cookies, inflight>>

\* mutant: the UPDATE has no WHERE clause
UpdateItem_AllRows(tbl, id, title, description, tags, start_time, end_time) ==
    [i \in DOMAIN tbl |->
        [tbl[i] EXCEPT !.title = title, !.description = description,
                       !.tags = tags, !.start_time = start_time,
                       !.end_time = end_time]]

\* UPDATE items SET title, description, tags, start_time, end_time WHERE id = :id
UpdateItem(tbl, id, title, description, tags, start_time, end_time) ==
    [i \in DOMAIN tbl |->
        IF i = id
        THEN [tbl[i] EXCEPT !.title = title, !.description = description,
                            !.tags = tags, !.start_time = start_time,
                            !.end_time = end_time]
        ELSE tbl[i]]

\* POST /data/{item_id}/edit
edit_item_submit(c, item_id, title, start_time, end_time, description, labels, os) ==
    LET u == current_user(c) IN
    /\ req' = FormRequest("edit_item_submit", c, item_id, start_time, end_time, labels)
    /\ IF NotAdmin(u)
       THEN /\ resp' = LoginRedirect
            /\ trace' = <<>>
            /\ UNCHANGED <<items, index>>
       ELSE IF ParseFails(start_time)
       THEN /\ resp' = Failure(400, "Invalid datetime for start_time")
            /\ trace' = <<>>
            /\ UNCHANGED <<items, index>>
       ELSE IF ParseFails(end_time)
       THEN /\ resp' = Failure(400, "Invalid datetime for end_time")
            /\ trace' = <<>>
            /\ UNCHANGED <<items, index>>
       ELSE IF EndBeforeStart(start_time, end_time)
       THEN /\ resp' = Failure(400, "End time must be after start time")
            /\ trace' = <<>>
            /\ UNCHANGED <<items, index>>
       ELSE /\ items' = UpdateItem(items, item_id, title, description,
                                   JoinComma(FilterLabels(labels)), start_time, end_time)
            /\ index' = index_item_in_os(index, item_id, RowOf(items', item_id), os)
            /\ trace' = StoreThenIndex(Transaction(<<"sql:update_item">>),
                                       IndexCalls(RowOf(items', item_id), os))
            /\ resp' = AfterIndexCall(os, Redirect("/data/", item_id))
    /\ UNCHANGED <<users, profiles, comments, nextItemId, nextCommentId, cookies, inflight>>

\* mutant: every signed-in user may delete
MayDelete_AnyUser(u, owner) == TRUE

\* `u.get("is_admin") or u["id"] == owner` of delete_item
MayDelete(u, owner) == is_admin(u) \/ u = owner

\* mutant: the comments of the item are left behind
DeleteCommentRows_None(rows, id) == rows

\* DELETE FROM items WHERE id = :id
DeleteItemRow(tbl, id) == [i \in DOMAIN tbl \ {id} |-> tbl[i]]
\* DELETE FROM comments WHERE item_id = :id
DeleteCommentRows(rows, id) == {r \in rows : r.item_id # id}

\* POST /data/{item_id}/delete
delete_item(c, item_id, os) ==
    LET u   == current_user(c)
        row == RowOf(items, item_id)
    IN
    /\ req' = ItemRequest("delete_item", c, item_id)
    /\ IF u = NULL
       THEN /\ resp' = LoginRedirect
            /\ trace' = <<>>
            /\ UNCHANGED <<items, comments, index>>
       ELSE IF row = <<>>
       THEN /\ resp' = Failure(404, "Not found")
            /\ trace' = <<>>
            /\ UNCHANGED <<items, comments, index>>
       ELSE IF ~MayDelete(u, row[1].author_user_id)
       THEN /\ resp' = Failure(403, "Not allowed")
            /\ trace' = <<>>
            /\ UNCHANGED <<items, comments, index>>
       ELSE /\ items' = DeleteItemRow(items, item_id)
            /\ comments' = DeleteCommentRows(comments, item_id)
            /\ index' = IF os = "down" THEN index ELSE OsDelete(index, Str(item_id))
            /\ trace' = StoreThenIndex(
                            Transaction(<<"sql:delete_item", "sql:delete_comments">>),
                            DeleteCalls(os))
            /\ resp' = AfterIndexCall(os, Redirect("/data", 0))
    /\ UNCHANGED <<users, profiles, nextItemId, nextCommentId, cookies, inflight>>

\* POST /data/{item_id}/comment
add_comment(c, item_id, content) ==
    LET u == current_user(c) IN
    /\ nextCommentId <= MaxComments
    /\ req' = [Request("add_comment", c) EXCEPT !.id = item_id]
    /\ IF u = NULL
       THEN /\ resp' = LoginRedirect
            /\ trace' = <<>>
            /\ UNCHANGED <<comments, nextCommentId>>
       ELSE /\ comments' = comments \cup
                   {[id |-> nextCommentId, item_id |-> item_id, user_id |-> u,
                     content |-> content]}
            /\ nextCommentId' = nextCommentId + 1
            /\ trace' = Transaction(<<"sql:insert_comment">>)
            /\ resp' = Redirect("/data/", item_id)
    /\ UNCHANGED <<users, profiles, items, nextItemId, index, cookies, inflight>>

\* ---------------------------------------------------------------- modules
\* normalize_label: label.capitalize(); the handler answers 404 when the
\* result is no allowed label
normalize_label(label) == Capitalize(label)
UnknownModule(label) == normalize_label(label) \notin Range(ALLOWED_LABELS)

\* POST /module/{label}/new
module_create(c, label, title, start_time, end_time, description, now, os) ==
    LET u == current_user(c) IN
    /\ nextItemId <= MaxItems
    /\ req' = FormRequest("module_create", c, 0, start_time, end_time, <<label>>)
    /\ IF u = NULL
       THEN /\ resp' = LoginRedirect
            /\ trace' = <<>>
            /\ UNCHANGED <<items, nextItemId, index>>
       ELSE IF UnknownModule(label)
       THEN /\ resp' = Failure(404, "Unknown module")
            /\ trace' = <<>>
            /\ UNCHANGED <<items, nextItemId, index>>
       ELSE ValidateAndInsert(u, title, start_time, end_time, description,
                              normalize_label(label), now, os)
    /\ UNCHANGED <<users, profiles, comments, nextCommentId, cookies, inflight>>

\* -------------------------------------------------------------- dashboard
\* substr(created_at, 1, 10) / datetime.date(): the calendar day of an
\* instant.  An instant is counted in half days: instant v is on day v \div 2.
\* The date texts are zero-padded ISO dates, so comparing them as strings is
\* comparing the days.
DateOf(t) == t.v \div 2

\* mutant: range(n, 0, -1), the window ends yesterday
get_last_n_days_Shifted(n, now) == [k \in 1..n |-> DateOf(now) - (n - k) - 1]

\* get_last_n_days(n): [(today - timedelta(days=i)) for i in range(n-1, -1, -1)]
get_last_n_days(n, now) == [k \in 1..n |-> DateOf(now) - (n - k)]

\* sum(f[i] for i in S)
RECURSIVE SumOver(_, _)
SumOver(S, f) ==
    IF S = {} THEN 0
    ELSE LET i == CHOOSE x \in S : TRUE IN f[i] + SumOver(S \ {i}, f)

\* the ids of a table, largest first (ORDER BY id DESC)
RECURSIVE OrderByIdDesc(_)
OrderByIdDesc(S) ==
    IF S = {} THEN <<>>
    ELSE LET m == CHOOSE x \in S : \A y \in S : y <= x
         IN  <<m>> \o OrderByIdDesc(S \ {m})

\* SELECT id,title,created_at FROM items ORDER BY id DESC LIMIT 5
RecentRows(tbl) ==
    LET ids == OrderByIdDesc(DOMAIN tbl)
    IN  SubSeq(ids, 1, IF Len(ids) < 5 THEN Len(ids) ELSE 5)

\* mutant: a label is counted once per item, however often the item has it
LabelHits_Once(tags, l) == IF \E k \in 1..Len(tags) : tags[k] = l THEN 1 ELSE 0

\* the inner loop of the histogram for one row and one label: label_counts[t]
\* goes up once for every token t of the row that is the label
LabelHits(tags, l) == Cardinality({k \in 1..Len(tags) : tags[k] = l})

\* label_counts after the loop over tag_rows, in the order of ALLOWED_LABELS
LabelCounts(tbl) ==
    [k \in 1..Len(ALLOWED_LABELS) |->
        LET hits == [i \in DOMAIN tbl |->
                        LabelHits(TagList(tbl[i].tags), ALLOWED_LABELS[k])]
        IN  SumOver(DOMAIN tbl, hits)]

\* unlabeled after the loop: the rows without tokens, and the rows none of
\* whose tokens is a key of label_counts
Unlabeled(tbl) ==
    Cardinality({i \in DOMAIN tbl :
        \A k \in 1..Len(TagList(tbl[i].tags)) :
            TagList(tbl[i].tags)[k] \notin Range(ALLOWED_LABELS)})

\* sum(label_counts.values())
RECURSIVE SumSeq(_)
SumSeq(s) == IF s = <<>> THEN 0 ELSE Head(s) + SumSeq(Tail(s))

\* the day_rows query: one group for every day between min_d and max_d on
\* which a row was created, with the number of rows of that day
DayRows(tbl, min_d, max_d) ==
    LET ds == {DateOf(tbl[i].created_at) : i \in DOMAIN tbl}
    IN  [d \in {x \in ds : x >= min_d /\ x <= max_d} |->
            Cardinality({i \in DOMAIN tbl : DateOf(tbl[i].created_at) = d})]

\* the names of the two buckets that are no label: "No data", "Unlabeled"
NoData == <<"N","o"," ","d","a","t","a">>
UnlabeledName == <<"U","n","l","a","b","e","l","e","d">>

\* compute_dashboard_stats(): what the dashboard page is rendered from
compute_dashboard_stats(tbl, now) ==
    LET label_counts == LabelCounts(tbl)
        unlabeled    == Unlabeled(tbl)
        total        == SumSeq(label_counts) + unlabeled
        days         == get_last_n_days(5, now)
        min_d        == days[1]
        max_d        == days[Len(days)]
        day_rows     == DayRows(tbl, min_d, max_d)
        \* day_map = {d: 0 for d in days}, then one assignment per group
        day_map      == [k \in 1..Len(days) |->
                            IF days[k] \in DOMAIN day_rows THEN day_rows[days[k]] ELSE 0]
    IN  [recent      |-> RecentRows(tbl),
         pie_labels  |-> IF total = 0 THEN <<NoData>>
                         ELSE [k \in 1..Len(ALLOWED_LABELS) |-> ALLOWED_LABELS[k]]
                              \o (IF unlabeled # 0 THEN <<UnlabeledName>> ELSE <<>>),
         pie_values  |-> IF total = 0 THEN <<1>>
                         ELSE label_counts \o (IF unlabeled # 0 THEN <<unlabeled>> ELSE <<>>),
         line_labels |-> days,
         line_values |-> day_map]

\* TemplateResponse("index.html", ...) of the dashboard
StatsPage(stats) ==
    [status |-> 200, to |-> "", id |-> 0, error |-> "", stats |-> stats]

\* TemplateResponse of a listing: the ids of the rows, in the order returned
ListPage(ids) ==
    [status |-> 200, to |-> "", id |-> 0, error |-> "", items |-> ids]

\* GET /
dashboard(c, now) ==
    /\ req' = [Request("dashboard", c) EXCEPT !.start = now]
    /\ trace' = <<>>
    /\ resp' = StatsPage(compute_dashboard_stats(items, now))
    /\ UNCHANGED <<store, index, cookies, inflight>>

\* GET /data
list_items(c) ==
    /\ req' = Request("list_items", c)
    /\ trace' = <<>>
    /\ resp' = ListPage(OrderByIdDesc(DOMAIN items))
    /\ UNCHANGED <<store, index, cookies, inflight>>

\* mutant: the needle is the bare label, without the delimiters
ModuleNeedle_Bare(label) == label

\* f"%,{label},%" without the two wildcards
ModuleNeedle(label) == <<",">> \o label \o <<",">>

\* text LIKE '%' || pat || '%': pat occurs in text; SQLite's LIKE does not
\* tell an ASCII letter from the same letter in the other case
Like(text, pat) ==
    \E i \in 1..(Len(text) - Len(pat) + 1) :
        \A j \in 1..Len(pat) : LowerChar(text[i + j - 1]) = LowerChar(pat[j])

\* SELECT ... FROM items WHERE ','||tags||',' LIKE :needle ORDER BY id DESC
ModuleRows(tbl, label) ==
    OrderByIdDesc({i \in DOMAIN tbl :
        Like(<<",">> \o tbl[i].tags \o <<",">>, ModuleNeedle(label))})

\* GET /module/{label}
module_page(c, label) ==
    /\ req' = [Request("module_page", c) EXCEPT !.labels = <<label>>]
    /\ trace' = <<>>
    /\ resp' = IF UnknownModule(label) THEN Failure(404, "Unknown module")
               ELSE ListPage(ModuleRows(items, normalize_label(label)))
    /\ UNCHANGED <<store, index, cookies, inflight>>

\* ----------------------------------------------------------------- search
\* the q parameter: a text; absent (None) and "" are both false in `if q`
Queries == {"", "t1"}

\* the ids of the documents a multi_match query on title, description, tags
\* and author returns.  A query is a whole word here, title, description and
\* author are one word each, and no query of the model is a label.
Hits(idx, q) ==
    {k \in DOMAIN idx : q \in {idx[k].title, idx[k].description, idx[k].author}}

\* TemplateResponse("search.html", {"results": results, "error": err})
SearchPage(results, err) ==
    [status |-> 200, to |-> "", id |-> 0, error |-> err, results |-> results]

\* mutant: the search call is outside the try block
SearchOutcome_Raises(idx, q, os) ==
    IF os = "down" THEN Failure(500, "Internal Server Error")
    ELSE SearchPage(Hits(idx, q), "")

\* try: os_client.search(...), one result per hit; except: err = str(e)
SearchOutcome(idx, q, os) ==
    IF os = "down" THEN SearchPage({}, "ConnectionError")
    ELSE SearchPage(Hits(idx, q), "")

SearchRequest(c, q) ==
    [op |-> "search", session |-> c, id |-> 0, start |-> NoTime, end |-> NoTime,
     labels |-> <<>>, q |-> q]

\* GET /search
search(c, q, os) ==
    /\ req' = SearchRequest(c, q)
    /\ IF q = ""
       THEN /\ resp' = SearchPage({}, "")
            /\ trace' = <<>>
       ELSE /\ resp' = SearchOutcome(index, q, os)
            /\ trace' = IF os = "down" THEN <<"os:search:failed">> ELSE <<"os:search:ok">>
    /\ UNCHANGED <<store, index, cookies, inflight>>

\* ------------------------------------------------------------ specification
ItemTargets == 1..MaxItems
UserTargets == 1..Cardinality(Usernames)

\* the report workflow: sign-up, login, the item handlers and the pages
\* that read
Next ==
    \/ \E c \in Sessions, n \in Usernames, p \in PasswordTries : login_submit(c, n, p)
    \/ \E c \in Sessions : logout(c)
    \/ \E c \in Sessions : register_form(c)
    \/ \E c \in Sessions, a \in Accounts :
          register_submit(c, a.username, a.password, a.name)
    \/ \E c \in Sessions, f \in ItemForms, now \in Clock, os \in OsStates :
          create_item(c, f.title, f.start_time, f.end_time, f.description, f.labels,
                      now, os)
    \/ \E c \in Sessions, i \in ItemTargets : view_item(c, i)
    \/ \E c \in Sessions, i \in ItemTargets, f \in ItemForms, os \in OsStates :
          edit_item_submit(c, i, f.title, f.start_time, f.end_time, f.description,
                           f.labels, os)
    \/ \E c \in Sessions, i \in ItemTargets, os \in OsStates : delete_item(c, i, os)
    \/ \E c \in Sessions, i \in ItemTargets, k \in Contents : add_comment(c, i, k)
    \/ \E c \in Sessions, m \in ModuleInputs, f \in ItemForms, now \in Clock,
          os \in OsStates :
          module_create(c, m, f.title, f.start_time, f.end_time, f.description, now, os)
    \/ \E c \in Sessions, now \in Clock : dashboard(c, now)
    \/ \E c \in Sessions : list_items(c)
    \/ \E c \in Sessions, m \in ModuleInputs : module_page(c, m)
    \/ \E c \in Sessions, q \in Queries, os \in OsStates : search(c, q, os)

Spec == Init /\ [][Next]_vars

\* ------------------------------------------- a deployment with a history
\* init_db keeps the rows it finds (CREATE TABLE IF NOT EXISTS): the process
\* starts over the database earlier requests have filled.  The rows below
\* are rows create_item and module_create write (",".join of allowed
\* labels, a label may repeat), and rows of an earlier deployment, without
\* owner, one of them with a label this deployment does not know.
MaxStored == 2

StoredRow(tags, created_at, author, owner) ==
    [title |-> "t1", description |-> "", tags |-> tags, created_at |-> created_at,
     author |-> author, author_user_id |-> owner,
     start_time |-> IsoText(0), end_time |-> IsoText(1)]

Recon2 == ALLOWED_LABELS[1] \o <<"2">>

StoredRows ==
    { StoredRow(<<>>, IsoText(0), "", NULL),
      StoredRow(Recon2, IsoText(12), "", NULL),
      StoredRow(ALLOWED_LABELS[1], IsoText(4), "Ann", 1),
      StoredRow(ALLOWED_LABELS[2], IsoText(3), "Ann", 1),
      StoredRow(JoinComma(<<ALLOWED_LABELS[1], ALLOWED_LABELS[5]>>), IsoText(11), "Ann", 1),
      StoredRow(JoinComma(<<ALLOWED_LABELS[5], ALLOWED_LABELS[5]>>), IsoText(10), "Ann", 1) }

StoredTables == UNION {[1..k -> StoredRows] : k \in 0..MaxStored}

\* the clock of the dashboard: the day of Clock, and five days later
LaterClock == Clock \cup {IsoText(11)}

\* the process starts over a database with two accounts, the admin who
\* signed up first and a member, and with the item rows `tbl`; every row
\* is mirrored in the index; nobody is signed in
Deployed(tbl) ==
    /\ users = <<[username |-> "u1", password_hash |-> bcrypt_hash("pw"),
                  is_admin |-> 1, is_active |-> 1],
                 [username |-> "u2", password_hash |-> bcrypt_hash("pw"),
                  is_admin |-> 0, is_active |-> 1]>>
    /\ profiles = [i \in {1, 2} |-> IF i = 1 THEN "Ann" ELSE "Bob"]
    /\ items = tbl
    /\ nextItemId = Cardinality(DOMAIN tbl) + 1
    /\ index = [k \in {Str(i) : i \in DOMAIN tbl} |->
                   Document(tbl[CHOOSE i \in DOMAIN tbl : Str(i) = k])]
    /\ comments = {}
    /\ nextCommentId = 1
    /\ cookies = {}
    /\ req = Request("start", 0)
    /\ resp = Page(0)
    /\ trace = <<>>
    /\ inflight = {}

InitDeployed == \E tbl \in StoredTables : Deployed(tbl)

\* login, the pages that read the store, and module create
NextRead ==
    \/ \E c \in Sessions, a \in Accounts : login_submit(c, a.username, a.password)
    \/ \E c \in Sessions, now \in LaterClock : dashboard(c, now)
    \/ \E c \in Sessions : list_items(c)
    \/ \E c \in Sessions, i \in 1..MaxStored : view_item(c, i)
    \/ \E c \in Sessions, m \in ModuleInputs \cup Range(ALLOWED_LABELS) : module_page(c, m)
    \/ \E c \in Sessions, m \in ModuleInputs, f \in ItemForms, now \in Clock,
          os \in OsStates :
          module_create(c, m, f.title, f.start_time, f.end_time, f.description, now, os)
    \/ \E c \in Sessions, q \in Queries, os \in OsStates : search(c, q, os)

ReadSpec == InitDeployed /\ [][NextRead]_vars

\* ------------------------------------------------------- user management
\* the forms of the user-management workflow: a first report, and a
\* revision of it
AdminForms ==
    { Form("t1", IsoText(0), IsoText(1), "", <<ALLOWED_LABELS[1]>>),
      Form("t2", IsoText(1), IsoText(1), "d1", <<ALLOWED_LABELS[5], Bogus>>) }

\* the is_admin field of the admin's new-user form
AdminFlags == {0, 1}

\* the name a user saves on the profile page
ProfileNames == {"Cy"}

\* sign-up, login, the admin's user pages, the profile page and the item
\* handlers, with the index reachable
\* the session of a request: none, a cookie login has issued, or a cookie
\* that names a user id the table does not have
CallerSessions == Sessions \cup {UnknownUserId}

NextAdmin ==
    \/ \E c \in Sessions, a \in Accounts : login_submit(c, a.username, a.password)
    \/ \E c \in Sessions, a \in Accounts :
          register_submit(c, a.username, a.password, a.name)
    \/ \E c \in Sessions, a \in Accounts, flag \in AdminFlags :
          admin_users_new(c, a.username, a.password, a.name, flag)
    \/ \E c \in Sessions, uid \in UserTargets : admin_toggle_admin(c, uid)
    \/ \E c \in Sessions, uid \in UserTargets : admin_toggle_active(c, uid)
    \/ \E c \in CallerSessions, n \in ProfileNames : profile_submit(c, n)
    \/ \E c \in CallerSessions, f \in AdminForms, now \in Clock :
          create_item(c, f.title, f.start_time, f.end_time, f.description, f.labels,
                      now, "up")
    \/ \E c \in CallerSessions, m \in ModuleInputs, f \in AdminForms, now \in Clock :
          module_create(c, m, f.title, f.start_time, f.end_time, f.description,
                        now, "up")
    \/ \E c \in Sessions, i \in ItemTargets, f \in AdminForms :
          edit_item_submit(c, i, f.title, f.start_time, f.end_time, f.description,
                           f.labels, "up")
    \/ \E c \in CallerSessions, i \in ItemTargets : delete_item(c, i, "up")
    \/ \E c \in CallerSessions, i \in ItemTargets, k \in Contents : add_comment(c, i, k)

AdminSpec == Init /\ [][NextAdmin]_vars

\* ---------------------------------------------- editing a filled store
\* an empty table, or two rows: of an earlier deployment (no owner) or
\* written by create_item for the member
EditRows ==
    { StoredRow(<<>>, IsoText(0), "", NULL),
      StoredRow(ALLOWED_LABELS[1], IsoText(0), "Bob", 2) }
EditTables == {Empty} \cup [1..2 -> EditRows]
EditTargets == 1..2

InitEdit == \E tbl \in EditTables : Deployed(tbl)

\* login, the profile page and the item handlers (module pages included),
\* with the index reachable
NextEdit ==
    \/ \E c \in Sessions, a \in Accounts : login_submit(c, a.username, a.password)
    \/ \E c \in Sessions, n \in ProfileNames : profile_submit(c, n)
    \/ \E c \in Sessions, f \in AdminForms, now \in Clock :
          create_item(c, f.title, f.start_time, f.end_time, f.description, f.labels,
                      now, "up")
    \/ \E c \in Sessions, l \in ModuleInputs, f \in AdminForms, now \in Clock :
          module_create(c, l, f.title, f.start_time, f.end_time, f.description,
                        now, "up")
    \/ \E c \in Sessions, i \in EditTargets, f \in AdminForms :
          edit_item_submit(c, i, f.title, f.start_time, f.end_time, f.description,
                           f.labels, "up")
    \/ \E c \in Sessions, i \in EditTargets : delete_item(c, i, "up")
    \/ \E c \in Sessions, i \in EditTargets, k \in Contents : add_comment(c, i, k)

EditSpec == InitEdit /\ [][NextEdit]_vars

\* ------------------------------------------------------ requests in flight
\* The routes are plain `def` functions: the server runs each request on a
\* thread of its pool, so the statements of requests interleave.  inflight
\* holds the requests that have begun and not answered yet, each with what
\* it has read or committed so far; req, resp and trace are those of the
\* request answered last.

\* the threads that serve requests at once
MaxInflight == 2

\* register_submit, the first statement of its block: SELECT COUNT(*) FROM
\* users.  The driver opens the write transaction at the INSERT, and an
\* engine at READ COMMITTED takes no lock for the count either, so the count
\* of one request and the INSERT of another are separate steps.
register_submit_count(c, username, password, name) ==
    /\ Cardinality(inflight) < MaxInflight
    /\ inflight' = inflight \cup
           { [req |-> Request("register_submit", c),
              done |-> <<"tx:begin">>,
              account |-> Account(username, password, name),
              count |-> Len(users)] }
    /\ UNCHANGED <<store, index, cookies, req, resp, trace>>

\* register_submit, from `is_admin = 1 if count == 0 else 0` to the response
register_submit_insert(r) ==
    LET admin == IF r.count = 0 THEN 1 ELSE 0
        uid   == Len(users) + 1
    IN
    /\ r \in inflight
    /\ r.req.op = "register_submit"
    /\ inflight' = inflight \ {r}
    /\ req' = r.req
    /\ IF UserByName(r.account.username) # {}
       THEN \* the INSERT violates UNIQUE(username)
            /\ resp' = Failure(400, "Username already exists")
            /\ trace' = r.done \o <<"tx:commit">>
            /\ UNCHANGED <<users, profiles>>
       ELSE /\ users' = Append(users,
                   [username |-> r.account.username,
                    password_hash |-> bcrypt_hash(r.account.password),
                    is_admin |-> admin, is_active |-> 1])
            /\ profiles' = UpsertProfile(profiles, uid, r.account.name)
            /\ resp' = LoginRedirect
            /\ trace' = r.done \o <<"sql:insert_user", "sql:upsert_profile", "tx:commit">>
    /\ UNCHANGED <<items, comments, nextItemId, nextCommentId, index, cookies>>

\* edit_item_submit up to the end of its `with engine.begin()` block: the
\* checks, the UPDATE, the row read back, the commit
edit_item_submit_store(c, item_id, title, start_time, end_time, description, labels) ==
    LET u       == current_user(c)
        request == FormRequest("edit_item_submit", c, item_id, start_time, end_time,
                               labels)
    IN
    /\ Cardinality(inflight) < MaxInflight
    /\ IF NotAdmin(u)
       THEN /\ req' = request
            /\ resp' = LoginRedirect
            /\ trace' = <<>>
            /\ UNCHANGED <<items, inflight>>
       ELSE IF ParseFails(start_time)
       THEN /\ req' = request
            /\ resp' = Failure(400, "Invalid datetime for start_time")
            /\ trace' = <<>>
            /\ UNCHANGED <<items, inflight>>
       ELSE IF ParseFails(end_time)
       THEN /\ req' = request
            /\ resp' = Failure(400, "Invalid datetime for end_time")
            /\ trace' = <<>>
            /\ UNCHANGED <<items, inflight>>
       ELSE IF EndBeforeStart(start_time, end_time)
       THEN /\ req' = request
            /\ resp' = Failure(400, "End time must be after start time")
            /\ trace' = <<>>
            /\ UNCHANGED <<items, inflight>>
       ELSE /\ items' = UpdateItem(items, item_id, title, description,
                                   JoinComma(FilterLabels(labels)), start_time, end_time)
            /\ inflight' = inflight \cup
                   { [req |-> request,
                      done |-> Transaction(<<"sql:update_item">>),
                      row |-> RowOf(items', item_id)] }
            /\ UNCHANGED <<req, resp, trace>>
    /\ UNCHANGED <<users, profiles, comments, nextItemId, nextCommentId, index, cookies>>

\* edit_item_submit after the commit: index_item_in_os(item_id, row) with
\* the row the request read back, then the redirect
edit_item_submit_index(r, os) ==
    /\ r \in inflight
    /\ r.req.op = "edit_item_submit"
    /\ inflight' = inflight \ {r}
    /\ index' = index_item_in_os(index, r.req.id, r.row, os)
    /\ req' = r.req
    /\ trace' = StoreThenIndex(r.done, IndexCalls(r.row, os))
    /\ resp' = AfterIndexCall(os, Redirect("/data/", r.req.id))
    /\ UNCHANGED <<store, cookies>>

\* delete_item up to the end of its `with engine.begin()` block: the
\* checks and the two DELETEs
delete_item_store(c, item_id) ==
    LET u       == current_user(c)
        row     == RowOf(items, item_id)
        request == ItemRequest("delete_item", c, item_id)
    IN
    /\ Cardinality(inflight) < MaxInflight
    /\ IF u = NULL
       THEN /\ req' = request
            /\ resp' = LoginRedirect
            /\ trace' = <<>>
            /\ UNCHANGED <<items, comments, inflight>>
       ELSE IF row = <<>>
       THEN /\ req' = request
            /\ resp' = Failure(404, "Not found")
            /\ trace' = <<>>
            /\ UNCHANGED <<items, comments, inflight>>
       ELSE IF ~MayDelete(u, row[1].author_user_id)
       THEN /\ req' = request
            /\ resp' = Failure(403, "Not allowed")
            /\ trace' = <<>>
            /\ UNCHANGED <<items, comments, inflight>>
       ELSE /\ items' = DeleteItemRow(items, item_id)
            /\ comments' = DeleteCommentRows(comments, item_id)
            /\ inflight' = inflight \cup
                   { [req |-> request,
                      done |-> Transaction(<<"sql:delete_item", "sql:delete_comments">>)] }
            /\ UNCHANGED <<req, resp, trace>>
    /\ UNCHANGED <<users, profiles, nextItemId, nextCommentId, index, cookies>>

\* delete_item after the commit: the guarded os_client.delete, then the
\* redirect
delete_item_index(r, os) ==
    /\ r \in inflight
    /\ r.req.op = "delete_item"
    /\ inflight' = inflight \ {r}
    /\ index' = IF os = "down" THEN index ELSE OsDelete(index, Str(r.req.id))
    /\ req' = r.req
    /\ trace' = StoreThenIndex(r.done, DeleteCalls(os))
    /\ resp' = AfterIndexCall(os, Redirect("/data", 0))
    /\ UNCHANGED <<store, cookies>>

\* sign-up, login, edits and deletes of threads that run side by side, from
\* construction, with the index reachable
NextStep ==
    \/ \E a \in Accounts :
          register_submit_count(0, a.username, a.password, a.name)
    \/ \E r \in inflight : register_submit_insert(r)
    \/ \E c \in Sessions, a \in Accounts : login_submit(c, a.username, a.password)
    \/ \E c \in Sessions, i \in ItemTargets, f \in AdminForms :
          edit_item_submit_store(c, i, f.title, f.start_time, f.end_time,
                                 f.description, f.labels)
    \/ \E r \in inflight : edit_item_submit_index(r, "up")
    \/ \E c \in Sessions, i \in ItemTargets : delete_item_store(c, i)
    \/ \E r \in inflight : delete_item_index(r, "up")

StepSpec == Init /\ [][NextStep]_vars

\* ------------------------------------------------------------------ claims
\* what a request asked for, read off the request alone
IsWrite(r) == r.op \in {"create_item", "module_create", "edit_item_submit"}
WellFormed(r) == r.start.text = "iso" /\ r.end.text = "iso"
Inverted(r) == WellFormed(r) /\ r.end.v < r.start.v
Success(r) == r.status = 303 /\ r.to # "/auth/login"
IsOsCall(e) == e \in {"os:index:ok", "os:index:failed", "os:delete:ok", "os:delete:failed"}
OsCalls(t) == SelectSeq(t, IsOsCall)

\* C1: the first account registered is an admin, and once an account exists
\* a registration by a caller who is not an active admin creates no user
\* row and no profile row.
C1_RegistrationGated ==
    [][req'.op = "register_submit" =>
          /\ (Len(users) = 0 /\ Len(users') = 1 => users'[1].is_admin = 1)
          /\ (Len(users) > 0 /\ NotAdmin(current_user(req'.session))
                 => users' = users /\ profiles' = profiles)]_vars

\* C2: delete(id) of an existing item by an authenticated caller removes
\* the item exactly when the caller is an admin or the item's owner; any
\* other caller gets 403 and items, comments and index stay as they were;
\* an item without owner goes only to an admin.
C2_DeleteAuthorization ==
    [][(/\ req'.op = "delete_item"
        /\ current_user(req'.session) # NULL
        /\ req'.id \in DOMAIN items) =>
          LET u     == current_user(req'.session)
              owner == items[req'.id].author_user_id
              admin == users[u].is_admin = 1
          IN  /\ (admin \/ (owner # NULL /\ owner = u))
                    => req'.id \notin DOMAIN items'
              /\ ~(admin \/ (owner # NULL /\ owner = u))
                    => /\ resp'.status = 403
                       /\ items' = items /\ comments' = comments /\ index' = index]_vars

\* a signed-in user was refused the delete of an item another user owns
C2_Witness ==
    /\ req.op = "delete_item" /\ resp.status = 403
    /\ req.id \in DOMAIN items /\ items[req.id].author_user_id # NULL

\* the gates a write handler checks before it validates the time window
PassesGate(r) ==
    CASE r.op = "create_item" -> current_user(r.session) # NULL
      [] r.op = "module_create" ->
            /\ current_user(r.session) # NULL
            /\ Capitalize(r.labels[1]) \in Range(ALLOWED_LABELS)
      [] r.op = "edit_item_submit" ->
            /\ current_user(r.session) # NULL
            /\ users[current_user(r.session)].is_admin = 1
      [] OTHER -> FALSE

RangeError(r) == r.status = 400 /\ r.error = "End time must be after start time"

\* C3 as stated: create, module create and edit with end before start
\* always answer the 400 form error, change nothing in the store and make
\* no index call.
C3_AlwaysFormError ==
    [][IsWrite(req') /\ Inverted(req') =>
          /\ RangeError(resp')
          /\ UNCHANGED <<store, index>>
          /\ OsCalls(trace') = <<>>]_vars

\* C3 amended: create, module create and edit with end before start change
\* nothing in the store and make no index call; the answer is the 400 form
\* error when the caller passes the gates the handler checks first (a
\* signed-in active user, a known module for module create, an admin for
\* edit).
C3_NoMutationOnInvertedWindow ==
    [][IsWrite(req') /\ Inverted(req') =>
          /\ UNCHANGED <<store, index>>
          /\ trace' = <<>>
          /\ (PassesGate(req') => RangeError(resp'))]_vars

C3_Witness == IsWrite(req) /\ Inverted(req) /\ RangeError(resp)

\* C4: every stored item has well-formed times with end >= start.
C4_TimeWindow ==
    \A i \in DOMAIN items :
        /\ items[i].start_time.text = "iso"
        /\ items[i].end_time.text = "iso"
        /\ items[i].end_time.v >= items[i].start_time.v

C4_Witness ==
    /\ req.op = "edit_item_submit" /\ Success(resp)
    /\ req.id \in DOMAIN items
    /\ items[req.id].start_time = req.start /\ items[req.id].end_time = req.end

\* the labels of a list that belong to the fixed enumeration, in order
Known(labels) ==
    SelectSeq(labels, LAMBDA l : \E k \in 1..Len(ALLOWED_LABELS) : ALLOWED_LABELS[k] = l)
HasUnknown(labels) == Known(labels) # labels

\* C5: unknown labels never make create or edit fail, they are dropped:
\* every stored item carries only labels of the enumeration, a create or
\* edit that passes the gates with a valid window succeeds and stores
\* exactly the known labels it was given, and a module create stores
\* exactly the one module label.
C5_Labels ==
    [][/\ \A i \in DOMAIN items' :
             Range(TagList(items'[i].tags)) \subseteq Range(ALLOWED_LABELS)
       /\ (/\ req'.op \in {"create_item", "edit_item_submit"}
           /\ PassesGate(req') /\ WellFormed(req') /\ ~Inverted(req'))
             => /\ Success(resp')
                /\ LET id == IF req'.op = "create_item" THEN resp'.id ELSE req'.id
                   IN  id \in DOMAIN items' =>
                          TagList(items'[id].tags) = Known(req'.labels)
       /\ (req'.op = "module_create" /\ Success(resp'))
             => /\ TagList(items'[resp'.id].tags) = <<Capitalize(req'.labels[1])>>
                /\ Capitalize(req'.labels[1]) \in Range(ALLOWED_LABELS)]_vars

C5_Witness ==
    /\ req.op = "create_item" /\ HasUnknown(req.labels) /\ Success(resp)
    /\ resp.id \in DOMAIN items
    /\ TagList(items[resp.id].tags) = <<ALLOWED_LABELS[5]>>

\* C6: after a successful delete(id) the store holds neither item id nor
\* a comment of item id, and both DELETEs ran inside one transaction.
C6_CascadeOnDelete ==
    (req.op = "delete_item" /\ Success(resp)) =>
        /\ req.id \notin DOMAIN items
        /\ \A c \in comments : c.item_id # req.id
        /\ SubSeq(trace, 1, 4) =
              <<"tx:begin", "sql:delete_item", "sql:delete_comments", "tx:commit">>
        /\ \A k \in 5..Len(trace) : trace[k] \notin {"tx:begin", "tx:commit"}

C6_Witness ==
    /\ req.op = "delete_item" /\ Success(resp)
    /\ nextCommentId > 1 /\ comments = {}

\* C7: every comment references an item that is in the store.
C7_NoOrphanComments == \A c \in comments : c.item_id \in DOMAIN items

\* delete_item is asked by a caller who may delete an item that exists
PassesDelete(r) ==
    /\ r.op = "delete_item"
    /\ current_user(r.session) # NULL
    /\ r.id \in DOMAIN items
    /\ \/ users[current_user(r.session)].is_admin = 1
       \/ items[r.id].author_user_id = current_user(r.session)

\* a delete that went through, and the same delete asked again
DeleteDone(r, a) == r.op = "delete_item" /\ Success(a)

\* C8 as stated: an authorized delete of an item succeeds whatever the
\* index holds or answers, and a delete repeated right after a successful
\* delete yields no error.
C8_DeleteTwiceNoError ==
    [][req'.op = "delete_item" =>
          /\ (PassesDelete(req') => Success(resp'))
          /\ (DeleteDone(req, resp) /\ req'.id = req.id /\ req'.session = req.session
                => resp'.status < 400)]_vars

\* C8 amended: an authorized delete of an item that is in the store
\* succeeds whatever the index holds or answers (the item is gone, and so
\* is its document when the index call went through); the same delete
\* repeated right after it answers 404, changes nothing and calls nothing.
C8_DeleteIgnoresIndex ==
    [][req'.op = "delete_item" =>
          /\ (PassesDelete(req') =>
                /\ resp' = Redirect("/data", 0)
                /\ req'.id \notin DOMAIN items'
                /\ Len(OsCalls(trace')) = 1
                /\ ("os:delete:ok" \in Range(trace') => Str(req'.id) \notin DOMAIN index')
                /\ ("os:delete:failed" \in Range(trace') => index' = index))
          /\ (DeleteDone(req, resp) /\ req'.id = req.id /\ req'.session = req.session
                => /\ resp' = Failure(404, "Not found")
                   /\ UNCHANGED <<store, index>>
                   /\ trace' = <<>>)]_vars

\* a delete that succeeded although the index call failed: the stale
\* document is still in the index
C8_Witness ==
    /\ req.op = "delete_item" /\ Success(resp)
    /\ "os:delete:failed" \in Range(trace)
    /\ Str(req.id) \in DOMAIN index

\* the item a write request made or changed
Written(r, a) == IF r.op = "edit_item_submit" THEN r.id ELSE a.id

\* C9: when the index upsert of a create, module create or edit fails, the
\* store change is committed and stays, and the caller is redirected to the
\* item view.
C9_BestEffortIndexWrite ==
    (IsWrite(req) /\ "os:index:failed" \in Range(trace)) =>
        LET id == Written(req, resp) IN
        /\ resp = Redirect("/data/", id)
        /\ "tx:commit" \in Range(trace)
        /\ id \in DOMAIN items
        /\ items[id].start_time = req.start
        /\ items[id].end_time = req.end
        /\ TagList(items[id].tags) =
              IF req.op = "module_create" THEN <<Capitalize(req.labels[1])>>
              ELSE Known(req.labels)

\* the upsert failed and the index does not have the document of the new item
C9_Witness ==
    /\ req.op = "create_item" /\ "os:index:failed" \in Range(trace)
    /\ Success(resp) /\ resp.id \in DOMAIN items
    /\ Str(resp.id) \notin DOMAIN index

\* C10: a request calls the index at most once, only after its store
\* transaction has committed, and not at all when it was refused
\* (redirect to login, 400, 403, 404).
C10_StoreThenIndex ==
    /\ Len(OsCalls(trace)) <= 1
    /\ \A k \in 1..Len(trace) :
          IsOsCall(trace[k]) =>
              /\ \E j \in 1..(k - 1) : trace[j] = "tx:commit"
              /\ \A j \in (k + 1)..Len(trace) : ~(trace[j] \in {"tx:begin", "tx:commit"})
    /\ ~Success(resp) => OsCalls(trace) = <<>>
    /\ OsCalls(trace) # <<>> => (IsWrite(req) \/ req.op = "delete_item")

C10_Witness ==
    /\ req.op = "edit_item_submit"
    /\ trace = <<"tx:begin", "sql:update_item", "tx:commit", "os:index:ok">>

\* ---------------------------------------------------- claims: dashboard
\* the histogram as the dashboard shows it: the counts of the labels, and
\* the count of the "Unlabeled" bucket (0 when the bucket is not shown)
PerLabel(stats) ==
    IF stats.pie_labels = <<NoData>> THEN <<>>
    ELSE SubSeq(stats.pie_values, 1, Len(ALLOWED_LABELS))
UnlabeledOf(stats) ==
    IF Len(stats.pie_values) > Len(ALLOWED_LABELS)
    THEN stats.pie_values[Len(ALLOWED_LABELS) + 1] ELSE 0
HistogramSum(stats) == SumSeq(PerLabel(stats)) + UnlabeledOf(stats)

\* the number of tokens of a row that are labels of the enumeration
KnownTokens(row) == Len(Known(TagList(row.tags)))
\* what a row adds to the histogram: one per known token, one if it has none
Weight(row) == IF KnownTokens(row) = 0 THEN 1 ELSE KnownTokens(row)

\* C11 as stated: the per-label counts plus the unlabeled count of the
\* dashboard add up to the number of items in the store.
C11_HistogramSumsToTotal ==
    req.op = "dashboard" => HistogramSum(resp.stats) = Cardinality(DOMAIN items)

\* C11 amended: the per-label counts plus the unlabeled count add up to the
\* sum over the items of the number of known labels the item carries (a
\* repeated label counted each time), an item with no known label counting
\* once; the sum is never below the number of items and equals it exactly
\* when no item carries more than one known label.
C11_HistogramSumsToWeights ==
    req.op = "dashboard" =>
        LET sum    == HistogramSum(resp.stats)
            total  == Cardinality(DOMAIN items)
            weight == [i \in DOMAIN items |-> Weight(items[i])]
        IN  /\ sum = SumOver(DOMAIN items, weight)
            /\ sum >= total
            /\ (sum = total <=> \A i \in DOMAIN items : KnownTokens(items[i]) <= 1)

\* the dashboard of a store with an item of two labels and an item of an
\* unknown label: 3 counted, 2 items
C11_Witness ==
    /\ req.op = "dashboard"
    /\ Cardinality(DOMAIN items) = 2
    /\ \E i \in DOMAIN items : KnownTokens(items[i]) = 2
    /\ UnlabeledOf(resp.stats) = 1
    /\ HistogramSum(resp.stats) = 3

\* the calendar day of the clock a dashboard request was served at
Today(r) == r.start.v \div 2

\* C12: the daily series of the dashboard has exactly 5 entries, for the
\* days today-4 .. today in ascending order, each the number of items
\* created on that day (0 when there is none); items created on other
\* days appear in no entry.
C12_DailySeries ==
    req.op = "dashboard" =>
        LET days   == resp.stats.line_labels
            values == resp.stats.line_values
            inside == {i \in DOMAIN items :
                          /\ items[i].created_at.v \div 2 >= Today(req) - 4
                          /\ items[i].created_at.v \div 2 <= Today(req)}
        IN  /\ Len(days) = 5 /\ Len(values) = 5
            /\ \A k \in 1..5 : days[k] = Today(req) - 5 + k
            /\ \A k \in 1..5 :
                  values[k] = Cardinality({i \in DOMAIN items :
                                              items[i].created_at.v \div 2 = days[k]})
            /\ SumSeq(values) = Cardinality(inside)

\* a dashboard over two items, one of three days ago and one of a day
\* before the window; the series is 0 1 0 0 0
C12_Witness ==
    /\ req.op = "dashboard"
    /\ Cardinality(DOMAIN items) = 2
    /\ \E i \in DOMAIN items : items[i].created_at.v \div 2 < Today(req) - 4
    /\ resp.stats.line_values = <<0, 1, 0, 0, 0>>

\* ------------------------------------------------------- claims: search
\* C13: a search with an empty or absent query answers an empty result
\* list and no error without calling the index; a search with a query
\* whose index call fails answers, as a page and not as a failed request,
\* an empty result list and a non-empty error message; a search changes
\* neither the store nor the index, and the view of an item of the store
\* right after a search renders the item.
C13_SearchFailureHandling ==
    [][/\ req'.op = "search" =>
             /\ resp'.status = 200
             /\ UNCHANGED <<store, index>>
             /\ (req'.q = "" =>
                    resp'.results = {} /\ resp'.error = "" /\ trace' = <<>>)
             /\ ("os:search:failed" \in Range(trace') =>
                    req'.q # "" /\ resp'.results = {} /\ resp'.error # "")
       /\ (req.op = "search" /\ req'.op = "view_item" /\ req'.id \in DOMAIN items) =>
             resp' = Page(req'.id) /\ UNCHANGED <<store, index>>]_vars

\* the search failed although the index holds a document the query matches
C13_Witness ==
    /\ req.op = "search" /\ req.q = "t1"
    /\ trace = <<"os:search:failed">>
    /\ resp.results = {} /\ resp.error # ""
    /\ Hits(index, req.q) # {}

\* ------------------------------------------------ claims: authorization
\* the session names a user row that is active / that is an active admin
ActiveSession(c) == c \in UserIds /\ users[c].is_active = 1
ActiveAdmin(c) == ActiveSession(c) /\ users[c].is_admin = 1

AdminOnly(r) ==
    r.op \in {"edit_item_submit", "admin_users_new", "admin_toggle_admin",
              "admin_toggle_active"}

\* C14: item edit, user creation by the admin form, toggle-admin and
\* toggle-active asked by a caller who is not a signed-in active admin (the
\* owner of the item included) are redirected to login and change nothing
\* in the store or the index.
C14_AdminOnly ==
    [][(AdminOnly(req') /\ ~ActiveAdmin(req'.session)) =>
          /\ resp' = LoginRedirect
          /\ UNCHANGED <<store, index>>
          /\ trace' = <<>>]_vars

\* the owner of an item, signed in and active but no admin, asked to edit it
C14_Witness ==
    /\ req.op = "edit_item_submit" /\ resp = LoginRedirect
    /\ req.id \in DOMAIN items
    /\ ActiveSession(req.session) /\ ~ActiveAdmin(req.session)
    /\ items[req.id].author_user_id = req.session

NeedsUser(r) ==
    r.op \in {"create_item", "module_create", "add_comment", "delete_item",
              "profile_submit"}

\* C15: create, module create, addComment, delete and profile save asked
\* without a resolvable user (no session, a session naming an unknown user
\* id, a session of a deactivated user) are redirected to login, with no
\* error status, and leave the store and the index as they were; asked by
\* an active user they are not redirected to login.
C15_AuthenticationGate ==
    [][NeedsUser(req') =>
          /\ ~ActiveSession(req'.session) =>
                /\ resp' = LoginRedirect
                /\ UNCHANGED <<store, index>>
                /\ trace' = <<>>
          /\ ActiveSession(req'.session) => resp' # LoginRedirect]_vars

\* a profile save with a cookie that names no user row, while users exist
C15_Witness ==
    /\ req.op = "profile_submit" /\ req.session = UnknownUserId
    /\ resp = LoginRedirect
    /\ users # <<>>

\* the requests that act for the user of the session
ActsForUser(r) == NeedsUser(r) \/ AdminOnly(r)

\* C16: while the active flag of a user is cleared, every request with the
\* session of that user resolves to no user: create, module create,
\* addComment, delete, edit, profile save and the admin operations are
\* redirected to login and change nothing, and a login with the user's
\* name and correct password is refused with 401 and issues no session;
\* once the flag is set again the login goes through.
C16_Deactivation ==
    [][/\ (/\ ActsForUser(req')
           /\ req'.session \in UserIds
           /\ users[req'.session].is_active = 0) =>
             /\ resp' = LoginRedirect
             /\ UNCHANGED <<store, index>>
       /\ req'.op = "login_submit" =>
             \A i \in UserIds :
                (/\ users[i].username = req'.username
                 /\ users[i].password_hash = bcrypt_hash(req'.password)) =>
                    /\ users[i].is_active = 0 =>
                          resp'.status = 401 /\ cookies' = cookies
                    /\ users[i].is_active = 1 =>
                          resp' = Redirect("/", 0) /\ i \in cookies']_vars

\* a deactivated admin, whose cookie is still out, asked to switch a user
\* back on and was sent to login
C16_Witness ==
    /\ req.op = "admin_toggle_active" /\ resp = LoginRedirect
    /\ req.session \in cookies
    /\ users[req.session].is_active = 0
    /\ users[req.session].is_admin = 1

\* ---------------------------------------------------- claims: ownership
\* C17: the owner reference of an item is the id of the user who created
\* it and no operation changes it afterwards; an edit leaves owner, author
\* name and creation timestamp of the item as they were, and leaves every
\* other item and all comments as they were.
C17_OwnerImmutable ==
    [][/\ \A i \in DOMAIN items \cap DOMAIN items' :
             items'[i].author_user_id = items[i].author_user_id
       /\ \A i \in DOMAIN items' \ DOMAIN items :
             /\ req'.op \in {"create_item", "module_create"}
             /\ ActiveSession(req'.session)
             /\ items'[i].author_user_id = req'.session
       /\ req'.op = "edit_item_submit" =>
             /\ DOMAIN items' = DOMAIN items
             /\ \A i \in DOMAIN items :
                   IF i = req'.id
                   THEN /\ items'[i].author_user_id = items[i].author_user_id
                        /\ items'[i].author = items[i].author
                        /\ items'[i].created_at = items[i].created_at
                   ELSE items'[i] = items[i]
             /\ comments' = comments /\ nextCommentId' = nextCommentId]_vars

\* the admin edited the member's item after the member had changed the
\* profile name: the item still has the member as owner and the old name
\* as author, and the other item still has its first title
C17_Witness ==
    /\ req.op = "edit_item_submit" /\ Success(resp)
    /\ DOMAIN items = {1, 2} /\ req.id \in {1, 2}
    /\ items[req.id].title = "t2"
    /\ items[req.id].author_user_id = 2
    /\ items[req.id].author = "Bob" /\ profiles[2] = "Cy"
    /\ items[3 - req.id].title = "t1"
    /\ comments # {}

\* ------------------------------------------------- claims: missing item
\* the caller may do what the request asks, were the item there
Authorized(r) ==
    CASE r.op = "view_item" -> TRUE
      [] r.op = "edit_item_submit" -> ActiveAdmin(r.session)
      [] r.op \in {"delete_item", "add_comment"} -> ActiveSession(r.session)
      [] OTHER -> FALSE

\* C18: view, edit, delete and addComment asked by a caller who may do
\* so, for an id that is not in the store, answer 404 and change nothing
\* in the store or the index.
C18_MissingItemNotFound ==
    [][(/\ req'.op \in {"view_item", "edit_item_submit", "delete_item", "add_comment"}
        /\ Authorized(req')
        /\ req'.id \notin DOMAIN items) =>
          /\ resp'.status = 404
          /\ UNCHANGED <<store, index>>]_vars

\* --------------------------------------------------- claims: modules
\* the module name normalizes to a label of the enumeration
KnownModule(r) == Capitalize(r.labels[1]) \in Range(ALLOWED_LABELS)

\* the row has the label as one of its tokens
HasToken(row, l) == \E k \in 1..Len(TagList(row.tags)) : TagList(row.tags)[k] = l

Descending(ids) == \A k \in 1..(Len(ids) - 1) : ids[k] > ids[k + 1]

\* the listing of a known module: the items that have the label as a whole
\* token, each once, largest id first
ExactListing ==
    (req.op = "module_page" /\ KnownModule(req)) =>
        /\ resp.status = 200
        /\ Range(resp.items) =
              {i \in DOMAIN items : HasToken(items[i], Capitalize(req.labels[1]))}
        /\ Descending(resp.items)

\* C19 as stated: the listing of a module is exactly the items that carry
\* the label as a whole token, by id descending, and a module name that
\* does not normalize to a label answers 404 for the listing and for
\* module create.
C19_ModuleFilterAlways404 ==
    /\ ExactListing
    /\ (req.op \in {"module_page", "module_create"} /\ ~KnownModule(req)) =>
          resp.status = 404

\* C19 amended: the listing of a module is exactly the items that carry
\* the label as a whole token, by id descending; a module name that does
\* not normalize to a label answers 404 for the listing, and for module
\* create when the caller is a signed-in active user (any other caller of
\* module create is redirected to login before the name is looked at).
C19_ModuleFilter ==
    /\ ExactListing
    /\ (req.op = "module_page" /\ ~KnownModule(req)) => resp.status = 404
    /\ (req.op = "module_create" /\ ~KnownModule(req)) =>
          IF ActiveSession(req.session) THEN resp = Failure(404, "Unknown module")
          ELSE resp = LoginRedirect

\* the Recon module of a store with a Recon,Notice item and a Recon2 item
\* lists the first and not the second
C19_Witness ==
    /\ req.op = "module_page" /\ req.labels = <<ALLOWED_LABELS[1]>>
    /\ Len(resp.items) = 1
    /\ \E i \in DOMAIN items : items[i].tags = Recon2
    /\ KnownTokens(items[resp.items[1]]) = 2

\* ------------------------------------------------ claims: index healing
\* the document of a stored row, field by field
Projection(row) ==
    [title |-> row.title, description |-> row.description,
     tags |-> TagList(row.tags), author |-> row.author,
     start_time |-> row.start_time, end_time |-> row.end_time,
     created_at |-> row.created_at]

\* the index has no document of item i, or one that differs from the row
OutOfSync(idx, tbl, i) ==
    i \in DOMAIN tbl /\ (Str(i) \notin DOMAIN idx \/ idx[Str(i)] # Projection(tbl[i]))

IsRead(r) == r.op \in {"view_item", "list_items", "dashboard", "module_page", "search"}

\* C20: an edit of an item that commits while the index answers leaves the
\* document of the item equal to the projection of the stored row, also
\* when the document was missing or stale before (an earlier upsert had
\* failed); view, listing, dashboard, module listing and search never
\* write to the index, so a missing or stale document stays as it is
\* across them.
C20_SelfHealingOnWrite ==
    [][/\ (/\ req'.op = "edit_item_submit"
           /\ req'.id \in DOMAIN items
           /\ "tx:commit" \in Range(trace')
           /\ "os:index:failed" \notin Range(trace')) =>
             /\ trace'[Len(trace')] = "os:index:ok"
             /\ Str(req'.id) \in DOMAIN index'
             /\ index'[Str(req'.id)] = Projection(items'[req'.id])
             /\ ~OutOfSync(index', items', req'.id)
       /\ IsRead(req') =>
             /\ index' = index
             /\ OsCalls(trace') = <<>>
             /\ \A i \in DOMAIN items : OutOfSync(index, items, i) => OutOfSync(index', items', i)]_vars

\* an edit that went through to the index: the document is the edited row
C20_Witness ==
    /\ req.op = "edit_item_submit"
    /\ trace = <<"tx:begin", "sql:update_item", "tx:commit", "os:index:ok">>
    /\ req.id \in DOMAIN items /\ items[req.id].title = "t2"
    /\ index[Str(req.id)] = Projection(items[req.id])

\* ---------------------------------------------------------------- C21
\* the index mirrors table tbl: one document per row, under the row's id as
\* a string, equal to the projection of the row
Mirrors(idx, tbl) ==
    /\ DOMAIN idx = { Str(i) : i \in DOMAIN tbl }
    /\ \A i \in DOMAIN tbl : idx[Str(i)] = Projection(tbl[i])

\* C21 (sequential mirror): with requests handled one at a time and every
\* index call succeeding, after each create, module create, edit and delete
\* (and in every other state) the set of index document ids is the set of
\* stored item ids as strings, and each document is the projection (title,
\* description, label list, author, start, end, created) of its row.
C21_SequentialMirror == Mirrors(index, items)

\* a delete has removed one of two items, and the index holds exactly the
\* document of the item that is left
C21_Witness ==
    /\ req.op = "delete_item" /\ Success(resp)
    /\ DOMAIN items = {2}
    /\ DOMAIN index = {Str(2)}
    /\ index[Str(2)].author = "Bob"

\* ---------------------------------------------------------------- C24
\* the accounts that can perform an admin-only operation
ActiveAdmins(tbl) ==
    { i \in DOMAIN tbl : tbl[i].is_admin = 1 /\ tbl[i].is_active = 1 }

\* C24 (admin availability): once the first account exists, no sequence of
\* toggle-admin and toggle-active requests (an admin toggling their own
\* flags included) leads to a state with users but no active admin.
C24_AdminAvailability == users # <<>> => ActiveAdmins(users) # {}

\* ---------------------------------------------------------------- C22
\* C22 (convergence under concurrency): when edit and delete requests on
\* the same item interleave, the store transaction and the index call of a
\* request being separate steps, and every index call succeeds, then once
\* all requests have completed the index agrees with the store: no document
\* for an item deleted from the store, and the document of each stored item
\* is the projection of its row (the last committed edit).
C22_Convergence == inflight = {} => Mirrors(index, items)

\* ---------------------------------------------------------------- C23
\* the accounts with the admin flag set
AdminAccounts(tbl) == { i \in DOMAIN tbl : tbl[i].is_admin = 1 }

\* C23 (single bootstrap admin): under any interleaving of concurrent
\* registration requests against an empty user table, each request counting
\* the users and then inserting, at most one account is auto-granted admin
\* by registration, and every account registration creates after a first
\* account exists has the admin flag clear.
C23_SingleBootstrapAdmin ==
    [][ /\ Cardinality(AdminAccounts(users')) <= 1
        /\ (Len(users) > 0 /\ Len(users') > Len(users)
               => users'[Len(users')].is_admin = 0) ]_vars

====
